---- MODULE Spec2Model ----
(***************************************************************************)
(* A model of pyquiz/expr/matrix.py: matrix construction and reshaping,    *)
(* the "Part", "Plus", "MatTimes", "Pow" rules, det / adj, and             *)
(* row_reduce.                                                             *)
(*                                                                         *)
(* Every Python value is a record with a head, as core.Expr is: a matrix   *)
(* is [head |-> "matrix", args |-> rows], rows a sequence of sequences; an *)
(* int is [head |-> "int", val |-> v]; a Python list of values is          *)
(* [head |-> "list", items |-> <<...>>].  A raised exception is the value  *)
(* the call yields: head "ValueError" (a hard error, with its message) or  *)
(* head "Inapplicable" (a deferral).                                       *)
(***************************************************************************)
EXTENDS Integers, Sequences, FiniteSets, TLC

VARIABLES
    call,       \* name of the operation last called ("" before any call)
    args,       \* its arguments
    e,          \* the matrix operand the call (or call chain) started from
    result,     \* what the call returned or raised
    pc,         \* position inside a multi-step operation
    rref,       \* row_reduce: parameter rref
    to_col,     \* row_reduce: parameter to_col after lines 409-415
    mat,        \* row_reduce: the working copy (line 404)
    i,          \* row_reduce: pivot row cursor; Pow: the bit mask
    j,          \* row_reduce: pivot column cursor
    last_nz,    \* row_reduce: last nonzero row boundary
    steps_out,  \* row_reduce: the trace sink (None or a list)
    n,          \* Pow: the exponent
    B,          \* Pow: the base being squared
    P           \* Pow: the accumulator

vars == <<call, args, e, result, pc, rref, to_col, mat, i, j, last_nz,
          steps_out, n, B, P>>

frame == <<call, args, e, result>>
rrLocals == <<rref, to_col, mat, i, j, last_nz, steps_out>>
powLocals == <<n, B, P>>

(***************************************************************************)
(* Bounds of the model.                                                    *)
(***************************************************************************)
MaxRows == 2
MaxCols == 2

\* entries used where the code treats them as opaque
ConsEntries == {0, 1}

(***************************************************************************)
(* Values.                                                                 *)
(***************************************************************************)
Expr(h, a) == [head |-> h, args |-> a]

ValueError(m) == [head |-> "ValueError", msg |-> m]

Inapplicable == [head |-> "Inapplicable"]

None == [head |-> "None"]

\* an expression that is no matrix (a variable such as var("x"))
Symbol == [head |-> "var"]

head(x) == x.head

IsMatrix(x) == x.head = "matrix"

IsError(x) == x.head = "ValueError"

SeqsUpTo(S, len) == UNION {[1..k -> S] : k \in 0..len}

RECURSIVE Flatten(_)
Flatten(ss) == IF Len(ss) = 0 THEN <<>> ELSE Head(ss) \o Flatten(Tail(ss))

Min(a, b) == IF a <= b THEN a ELSE b

\* zip(*rows): the columns, as many as the shortest row has
Zip(rows) ==
    IF Len(rows) = 0 THEN <<>>
    ELSE LET w == CHOOSE w \in {Len(rows[r]) : r \in 1..Len(rows)} :
                      \A r \in 1..Len(rows) : w <= Len(rows[r])
         IN  [c \in 1..w |-> [r \in 1..Len(rows) |-> rows[r][c]]]

(***************************************************************************)
(* Construction (lines 22-76).                                             *)
(***************************************************************************)
vector(elts) ==
    IF Len(elts) = 0
    THEN ValueError("We require vectors to have at least one row.")
    ELSE Expr("matrix", [k \in 1..Len(elts) |-> <<elts[k]>>])

matrix(rows) ==
    IF Len(rows) = 0
    THEN ValueError("We require matrices to have at least one row and column.")
    ELSE IF \E r \in 1..Len(rows) : Len(rows[r]) # Len(rows[1])
    THEN ValueError("Not all rows in the matrix have the same length.")
    ELSE Expr("matrix", rows)

diagonal_matrix(entries) ==
    IF Len(entries) = 0
    THEN ValueError("We require matrices to have at least one row and column.")
    ELSE matrix([r \in 1..Len(entries) |->
                   [c \in 1..Len(entries) |-> IF r = c THEN entries[r] ELSE 0]])

identity_matrix(k) ==
    IF k <= 0
    THEN ValueError("We require matrices to have at least one row and column.")
    ELSE matrix([r \in 1..k |-> [c \in 1..k |-> IF r = c THEN 1 ELSE 0]])

nrows(x) == Len(x.args)

ncols(x) == Len(x.args[1])

(***************************************************************************)
(* Indexing and reshaping (lines 103-216).  An index argument is           *)
(* [t |-> "int", v |-> k], [t |-> "list", v |-> <<k1, ...>>] or            *)
(* [t |-> "other"] (not an int and not iterable).                          *)
(***************************************************************************)
IdxList(idx) == IF idx.t = "int" THEN <<idx.v>> ELSE idx.v

row(x, idx) ==
    IF head(x) # "matrix" THEN ValueError("expecting a matrix")
    ELSE IF idx.t = "other"
    THEN ValueError("expecting int or iterable (for example a list) for second argument")
    ELSE LET idxs == IdxList(idx)
         IN  IF \E k \in 1..Len(idxs) : ~(1 <= idxs[k] /\ idxs[k] <= nrows(x))
             THEN ValueError("index is out of bounds")
             ELSE matrix([k \in 1..Len(idxs) |-> x.args[idxs[k]]])

col(x, idx) ==
    IF head(x) # "matrix" THEN ValueError("expecting a matrix")
    ELSE IF idx.t = "other"
    THEN ValueError("expecting int or iterable (for example a list) for second argument")
    ELSE LET idxs == IdxList(idx)
         IN  IF \E k \in 1..Len(idxs) : ~(1 <= idxs[k] /\ idxs[k] <= ncols(x))
             THEN ValueError("index is out of bounds")
             ELSE matrix([r \in 1..nrows(x) |->
                            [k \in 1..Len(idxs) |-> x.args[r][idxs[k]]]])

\* a list comprehension over calls that may raise: the first raise wins
ListOf(xs) ==
    IF \E k \in 1..Len(xs) : IsError(xs[k])
    THEN xs[CHOOSE k \in 1..Len(xs) :
                IsError(xs[k]) /\ \A l \in 1..(k - 1) : ~IsError(xs[l])]
    ELSE [head |-> "list", items |-> xs]

rows(x) ==
    IF head(x) # "matrix" THEN ValueError("expecting a matrix")
    ELSE ListOf([r \in 1..nrows(x) |-> vector(x.args[r])])

cols(x) ==
    IF head(x) # "matrix" THEN ValueError("expecting a matrix")
    ELSE LET z == Zip(x.args)
         IN  ListOf([c \in 1..Len(z) |-> vector(z[c])])

transpose(x) == matrix(Zip(x.args))

matrix_with_cols(cs) ==
    IF Len(cs) = 0 THEN ValueError("Matrices must have at least one column.")
    ELSE IF \E k \in 1..Len(cs) : head(cs[k]) # "matrix"
    THEN ValueError("Not all the arguments are matrices")
    ELSE IF \E k \in 1..Len(cs) : nrows(cs[k]) # nrows(cs[1])
    THEN ValueError("Not all the matrices have the same number of rows.")
    ELSE Expr("matrix", [r \in 1..nrows(cs[1]) |->
                           Flatten([k \in 1..Len(cs) |-> cs[k].args[r]])])

\* seeded fault: "mrows = r.args" for "mrows.extend(r.args)" keeps the last block only
matrix_with_rows_last_block(rs) ==
    IF Len(rs) = 0 THEN ValueError("Matrices must have at least one row.")
    ELSE IF \E k \in 1..Len(rs) : head(rs[k]) # "matrix"
    THEN ValueError("Not all the arguments are matrices")
    ELSE IF \E k \in 1..Len(rs) : ncols(rs[k]) # ncols(rs[1])
    THEN ValueError("Not all the matrices have the same number of columns.")
    ELSE Expr("matrix", rs[Len(rs)].args)

matrix_with_rows(rs) ==
    IF Len(rs) = 0 THEN ValueError("Matrices must have at least one row.")
    ELSE IF \E k \in 1..Len(rs) : head(rs[k]) # "matrix"
    THEN ValueError("Not all the arguments are matrices")
    ELSE IF \E k \in 1..Len(rs) : ncols(rs[k]) # ncols(rs[1])
    THEN ValueError("Not all the matrices have the same number of columns.")
    ELSE Expr("matrix", Flatten([k \in 1..Len(rs) |-> rs[k].args]))

(***************************************************************************)
(* Exact scalars.  Integer entries are TLA+ integers.  frac(a, b) of       *)
(* core is an exact rational in lowest terms: <<num, den>> with den > 0    *)
(* and gcd(num, den) = 1, so that equal rationals are equal values.        *)
(***************************************************************************)
Abs(a) == IF a < 0 THEN -a ELSE a

RECURSIVE GCD(_, _)
GCD(a, b) == IF b = 0 THEN a ELSE GCD(b, a % b)

Frac(a, b) ==
    LET g == GCD(Abs(a), Abs(b))
        s == IF b < 0 THEN -1 ELSE 1
    IN  <<(s * a) \div g, (s * b) \div g>>

QInt(a) == <<a, 1>>

QAdd(x, y) == Frac(x[1] * y[2] + y[1] * x[2], x[2] * y[2])

QMul(x, y) == Frac(x[1] * y[1], x[2] * y[2])

QNeg(x) == <<-x[1], x[2]>>

\* frac(1, x) for x # 0
QInv(x) == Frac(x[2], x[1])

QZero == QInt(0)

QOne == QInt(1)

QMatrix(rs) == [r \in 1..Len(rs) |-> [c \in 1..Len(rs[r]) |-> QInt(rs[r][c])]]

RECURSIVE SumSeq(_)
SumSeq(s) == IF Len(s) = 0 THEN 0 ELSE Head(s) + SumSeq(Tail(s))

RECURSIVE QSumSeq(_)
QSumSeq(s) == IF Len(s) = 0 THEN QZero ELSE QAdd(Head(s), QSumSeq(Tail(s)))

\* (-1) ** k
Sign(k) == IF k % 2 = 0 THEN 1 ELSE -1

Scalar(v) == [head |-> "int", val |-> v]

(***************************************************************************)
(* det (lines 246-264), adj (lines 336-349), MatTimes (lines 319-334).     *)
(***************************************************************************)
Without(s, k) == [l \in 1..(Len(s) - 1) |-> IF l < k THEN s[l] ELSE s[l + 1]]

\* expand along the first column
RECURSIVE expand(_)
expand(rs) ==
    IF Len(rs) = 1 THEN rs[1][1]
    ELSE SumSeq([r \in 1..Len(rs) |->
                   Sign(r - 1) * rs[r][1]
                     * expand([l \in 1..(Len(rs) - 1) |-> Tail(Without(rs, r)[l])])])

det(x) ==
    IF head(x) # "matrix" THEN Inapplicable
    ELSE IF nrows(x) # ncols(x) THEN ValueError("det expecting square matrix")
    ELSE Scalar(expand(x.args))

\* C(i0, j0) of adj: det(matrix(*rows2)), rows2 without row i0 and column j0
Cofactor(rs, i0, j0) ==
    LET rows2 == [l \in 1..(Len(rs) - 1) |-> Without(Without(rs, i0)[l], j0)]
        m == matrix(rows2)
    IN  IF IsError(m) THEN m ELSE det(m)

adj(x) ==
    IF head(x) # "matrix" THEN Inapplicable
    ELSE IF Len(x.args) # Len(x.args[1]) THEN ValueError("expecting square matrix")
    ELSE LET k == Len(x.args)
             first == Cofactor(x.args, 1, 1)
         IN  IF IsError(first) THEN first
             ELSE matrix([r \in 1..k |-> [c \in 1..k |->
                            Sign(r + c) * Cofactor(x.args, c, r).val]])

reduce_matmul(X, Y) ==
    IF head(X) # "matrix" \/ head(Y) # "matrix" THEN Inapplicable
    ELSE IF ncols(X) # nrows(Y)
    THEN ValueError("Number of columns of first argument does not equal number of rows of second argument")
    ELSE matrix([r \in 1..nrows(X) |-> [c \in 1..ncols(Y) |->
                    SumSeq([k \in 1..ncols(X) |-> X.args[r][k] * Y.args[k][c]])]])

RECURSIVE Product(_)
Product(s) == IF Len(s) = 0 THEN 1 ELSE Head(s).val * Product(Tail(s))

\* the "Times" rule (lines 286-298): the first matrix factor, every entry
\* multiplied by the product of the other factors
rule_scalar_multiplication(fs) ==
    IF Len(fs) <= 1 THEN Inapplicable
    ELSE IF \A k \in 1..Len(fs) : head(fs[k]) # "matrix" THEN Inapplicable
    ELSE LET k == CHOOSE k \in 1..Len(fs) :
                      head(fs[k]) = "matrix" /\ \A l \in 1..(k - 1) : head(fs[l]) # "matrix"
             rest == Product(Without(fs, k))
         IN  Expr("matrix", [r \in 1..nrows(fs[k]) |-> [c \in 1..ncols(fs[k]) |->
                                rest * fs[k].args[r][c]]])

(***************************************************************************)
(* Locals of the multi-step operations while none of them runs.            *)
(***************************************************************************)
RRIdle ==
    /\ rref = FALSE /\ to_col = 0 /\ mat = <<>> /\ i = 0 /\ j = 0
    /\ last_nz = 0 /\ steps_out = None

PowIdle == n = 0 /\ B = None /\ P = None

(***************************************************************************)
(* SpecCons: the constructors and reshaping operations, each call one      *)
(* step.  A chain of calls is a constructor (or a concatenation of given   *)
(* blocks), then at most one of row / col / transpose on the matrix it     *)
(* returned, then rows or cols on the matrix returned last, then a         *)
(* concatenation of the list that gave.                                    *)
(***************************************************************************)
RowLists == SeqsUpTo(SeqsUpTo(ConsEntries, MaxCols), MaxRows)

IdxVals == 0..((IF MaxRows >= MaxCols THEN MaxRows ELSE MaxCols) + 1)

IdxArgs ==
    [t : {"int"}, v : IdxVals]
        \cup [t : {"list"}, v : SeqsUpTo(IdxVals \ {0}, MaxCols)]
        \cup [t : {"other"}, v : {0}]

\* blocks for direct calls of the concatenations: every shape, one fill
BlockPool ==
    {Expr("matrix", [r \in 1..m |-> [c \in 1..k |-> v]]) :
        m \in 1..MaxRows, k \in 1..MaxCols, v \in ConsEntries} \cup {Symbol}

BlockLists == SeqsUpTo(BlockPool, MaxCols)

Constructors ==
    {"vector", "matrix", "diagonal_matrix", "identity_matrix",
     "matrix_with_rows", "matrix_with_cols"}

\* the result of the chain's constructor, within the bounds of the model
Constructed ==
    /\ call \in Constructors /\ e = None
    /\ IsMatrix(result) /\ nrows(result) <= MaxRows /\ ncols(result) <= MaxCols

\* a matrix the chain may decompose
Reshaped == Constructed \/ (call \in {"row", "col", "transpose"} /\ IsMatrix(result))

ConsInit ==
    /\ call = "" /\ args = <<>> /\ e = None /\ result = None /\ pc = "idle"
    /\ RRIdle /\ PowIdle

Returns(op, a, r) ==
    /\ call' = op /\ args' = a /\ result' = r
    /\ UNCHANGED <<pc, rrLocals, powLocals>>

CallVector ==
    /\ call = ""
    /\ \E elts \in SeqsUpTo(ConsEntries, MaxRows) :
        Returns("vector", elts, vector(elts)) /\ UNCHANGED e

CallMatrix ==
    /\ call = ""
    /\ \E rs \in RowLists : Returns("matrix", rs, matrix(rs)) /\ UNCHANGED e

CallDiagonal ==
    /\ call = ""
    /\ \E ds \in SeqsUpTo(ConsEntries, MaxRows) :
        Returns("diagonal_matrix", ds, diagonal_matrix(ds)) /\ UNCHANGED e

CallIdentity ==
    /\ call = ""
    /\ \E k \in 0..MaxRows :
        Returns("identity_matrix", <<k>>, identity_matrix(k)) /\ UNCHANGED e

CallRow ==
    /\ Constructed
    /\ \E idx \in IdxArgs : Returns("row", <<result, idx>>, row(result, idx))
    /\ UNCHANGED e

CallCol ==
    /\ Constructed
    /\ \E idx \in IdxArgs : Returns("col", <<result, idx>>, col(result, idx))
    /\ UNCHANGED e

CallTranspose ==
    /\ Constructed
    /\ Returns("transpose", <<result>>, transpose(result))
    /\ UNCHANGED e

CallRows ==
    /\ Reshaped
    /\ Returns("rows", <<result>>, rows(result))
    /\ e' = result

CallCols ==
    /\ Reshaped
    /\ Returns("cols", <<result>>, cols(result))
    /\ e' = result

\* matrix_with_rows(*L): L the list the previous call returned, or blocks
CallMatrixWithRows ==
    /\ \E ms \in IF call = "" THEN BlockLists
                   ELSE IF head(result) = "list" THEN {result.items} ELSE {} :
           Returns("matrix_with_rows", ms, matrix_with_rows(ms))
    /\ UNCHANGED e

CallMatrixWithCols ==
    /\ \E ms \in IF call = "" THEN BlockLists
                   ELSE IF head(result) = "list" THEN {result.items} ELSE {} :
           Returns("matrix_with_cols", ms, matrix_with_cols(ms))
    /\ UNCHANGED e

ConsNext ==
    \/ CallVector \/ CallMatrix \/ CallDiagonal \/ CallIdentity
    \/ CallRow \/ CallCol \/ CallTranspose \/ CallRows \/ CallCols
    \/ CallMatrixWithRows \/ CallMatrixWithCols

SpecCons == ConsInit /\ [][ConsNext]_vars

(***************************************************************************)
(* SpecAdj: det and adj, each called once on a square matrix.              *)
(***************************************************************************)
AdjN == 3

AdjEntries == {-1, 0, 1}

Matrices(m, k, S) == {Expr("matrix", rs) : rs \in [1..m -> [1..k -> S]]}

AdjInit ==
    /\ call = "" /\ args = <<>> /\ result = None /\ pc = "idle"
    /\ e \in UNION {Matrices(k, k, AdjEntries) : k \in 1..AdjN}
    /\ RRIdle /\ PowIdle

CallDet ==
    /\ call = ""
    /\ Returns("det", <<e>>, det(e))
    /\ UNCHANGED e

CallAdj ==
    /\ call = ""
    /\ Returns("adj", <<e>>, adj(e))
    /\ UNCHANGED e

AdjNext == CallDet \/ CallAdj

SpecAdj == AdjInit /\ [][AdjNext]_vars

(***************************************************************************)
(* SpecPow: the "Pow" rule reduce_matrix_inverse (lines 351-379), one step *)
(* per loop iteration.                                                     *)
(***************************************************************************)
PowN == 2

MaxPow == 6

\* the largest k of a negative exponent -k (det(A^k) stays in range)
MaxInv == 2

PowEntries == {0, 2}

\* the exponent argument: an int, or a value that is no int
PowExponents == [t : {"int"}, v : (-MaxInv)..MaxPow] \cup [t : {"other"}, v : {0}]

PowOperands ==
    UNION {Matrices(m, k, PowEntries) : m \in 1..PowN, k \in 1..PowN} \cup {Symbol}

RECURSIVE BitAnd(_, _)
BitAnd(a, b) ==
    IF a = 0 \/ b = 0 THEN 0
    ELSE 2 * BitAnd(a \div 2, b \div 2) + (IF a % 2 = 1 /\ b % 2 = 1 THEN 1 ELSE 0)

npos == Abs(n)

PowInit ==
    /\ call = "Pow" /\ result = None /\ pc = "call"
    /\ \E A \in PowOperands, k \in PowExponents : e = A /\ args = <<A, k>>
    /\ RRIdle /\ PowIdle

\* lines 353-367
PowEnter ==
    /\ call = "Pow" /\ pc = "call"
    /\ IF head(e) # "matrix" \/ args[2].t # "int"
       THEN /\ result' = Inapplicable /\ pc' = "done"
            /\ UNCHANGED <<i, n, B, P>>
       ELSE IF nrows(e) # ncols(e)
       THEN /\ result' = IF args[2].v < 0
                         THEN ValueError("Taking the inverse of a non-square matrix")
                         ELSE ValueError("Taking the power of a non-square matrix")
            /\ pc' = "done"
            /\ UNCHANGED <<i, n, B, P>>
       ELSE /\ n' = args[2].v
            /\ B' = e
            /\ P' = identity_matrix(nrows(e))
            /\ i' = 1
            /\ pc' = "loop"
            /\ UNCHANGED result
    /\ UNCHANGED <<call, args, e, rref, to_col, mat, j, last_nz, steps_out>>

\* seeded fault: "if i and npos" for "if i & npos"
PowAccumulate_logical_and(acc, base, mask, exponent) ==
    IF mask # 0 /\ exponent # 0 THEN reduce_matmul(acc, base) ELSE acc

\* lines 369-370: the accumulator after one iteration
PowAccumulate(acc, base, mask, exponent) ==
    IF BitAnd(mask, exponent) # 0 THEN reduce_matmul(acc, base) ELSE acc

\* lines 368-372: one iteration of the loop
PowLoop ==
    /\ call = "Pow" /\ pc = "loop" /\ i <= npos
    /\ P' = PowAccumulate(P, B, i, npos)
    /\ i' = i * 2
    /\ B' = reduce_matmul(B, B)
    /\ UNCHANGED <<frame, pc, n, rref, to_col, mat, j, last_nz, steps_out>>

\* lines 377-379: adj(P) / det(P) entrywise
Inverse(X) ==
    LET d == det(X)
        a == adj(X)
    IN  IF IsError(a) THEN a
        ELSE IF d.val = 0 THEN [head |-> "ZeroDivisionError"]
        ELSE matrix([r \in 1..nrows(a) |-> [c \in 1..ncols(a) |->
                        Frac(a.args[r][c], d.val)]])

\* lines 374-379
PowReturn ==
    /\ call = "Pow" /\ pc = "loop" /\ ~(i <= npos)
    /\ result' = IF n >= 0 THEN P ELSE Inverse(P)
    /\ pc' = "done"
    /\ UNCHANGED <<call, args, e, rrLocals, powLocals>>

PowNext == PowEnter \/ PowLoop \/ PowReturn

SpecPow == PowInit /\ [][PowNext]_vars

(***************************************************************************)
(* SpecPart: the two "Part" rules (lines 218-244).  An index is an int     *)
(* [t |-> "int", v |-> k], an expression [t |-> "expr"] (isinstance Expr), *)
(* or a value that is neither, such as a string or a float                 *)
(* [t |-> "other"].                                                        *)
(***************************************************************************)
PartEntries == {5, 7}

PartIndices ==
    [t : {"int"}, v : 0..((IF MaxRows >= MaxCols THEN MaxRows ELSE MaxCols) + 1)]
        \cup [t : {"expr", "other"}, v : {0}]

PartOperands ==
    UNION {Matrices(m, k, PartEntries) : m \in 1..MaxRows, k \in 1..MaxCols}
        \cup {Symbol}

\* the f-strings of lines 237 and 239 name idx, which rule_part_matrix
\* does not define
NameError == [head |-> "NameError"]

\* seeded fault: the int test of line 223 ahead of the Expr test of line 221
rule_part_vector_int_first(x, idx) ==
    IF head(x) # "matrix" THEN Inapplicable
    ELSE IF idx.t # "int" THEN ValueError("Expecting integer for index")
    ELSE IF ncols(x) # 1
    THEN ValueError("Need two indices to index a matrix, not one.")
    ELSE IF ~(1 <= idx.v /\ idx.v <= nrows(x))
    THEN ValueError("Index is out of bounds for vector")
    ELSE Scalar(x.args[idx.v][1])

rule_part_vector(x, idx) ==
    IF head(x) # "matrix" \/ idx.t = "expr" THEN Inapplicable
    ELSE IF idx.t # "int" THEN ValueError("Expecting integer for index")
    ELSE IF ncols(x) # 1
    THEN ValueError("Need two indices to index a matrix, not one.")
    ELSE IF ~(1 <= idx.v /\ idx.v <= nrows(x))
    THEN ValueError("Index is out of bounds for vector")
    ELSE Scalar(x.args[idx.v][1])

rule_part_matrix(x, idx1, idx2) ==
    IF head(x) # "matrix" \/ idx1.t = "expr" \/ idx2.t = "expr" THEN Inapplicable
    ELSE IF idx1.t # "int" THEN NameError
    ELSE IF idx2.t # "int" THEN NameError
    ELSE IF ~(1 <= idx1.v /\ idx1.v <= nrows(x))
    THEN ValueError("First index is out of bounds")
    ELSE IF ~(1 <= idx2.v /\ idx2.v <= ncols(x))
    THEN ValueError("Second index is out of bounds")
    ELSE Scalar(x.args[idx1.v][idx2.v])

PartInit ==
    /\ call = "Part" /\ result = None /\ pc = "call"
    /\ e \in PartOperands
    /\ args \in {<<k>> : k \in PartIndices}
                  \cup {<<k, l>> : k \in PartIndices, l \in PartIndices}
    /\ RRIdle /\ PowIdle

PartVector ==
    /\ call = "Part" /\ pc = "call" /\ Len(args) = 1
    /\ result' = rule_part_vector(e, args[1])
    /\ pc' = "done"
    /\ UNCHANGED <<call, args, e, rrLocals, powLocals>>

PartMatrix ==
    /\ call = "Part" /\ pc = "call" /\ Len(args) = 2
    /\ result' = rule_part_matrix(e, args[1], args[2])
    /\ pc' = "done"
    /\ UNCHANGED <<call, args, e, rrLocals, powLocals>>

PartNext == PartVector \/ PartMatrix

SpecPart == PartInit /\ [][PartNext]_vars

(***************************************************************************)
(* SpecPlus: the "Plus" rule rule_matrix_addition (lines 300-316).         *)
(***************************************************************************)
MaxTerms == 3

PlusFills == {1, 2}

\* a matrix whose entries tell their fill and their place
Filled(m, k, v) ==
    Expr("matrix", [r \in 1..m |-> [c \in 1..k |-> 100 * v + 10 * r + c]])

PlusOperands ==
    {Filled(m, k, v) : m \in 1..MaxRows, k \in 1..MaxCols, v \in PlusFills}
        \cup {Symbol}

Plus(ts) == [head |-> "Plus", terms |-> ts]

\* lines 313-314
ElementwiseSum(X, Y) ==
    Expr("matrix", [r \in 1..nrows(X) |-> [c \in 1..ncols(X) |->
                       X.args[r][c] + Y.args[r][c]]])

\* seeded fault: "args[j:]" for "args[j+1:]" keeps the second matrix of the pair
Spliced_keeps_second(ts, a, b, a2) ==
    SubSeq(ts, 1, a - 1) \o <<a2>> \o SubSeq(ts, a + 1, b - 1)
        \o SubSeq(ts, b, Len(ts))

\* line 315: args[:i], a2, args[i+1:j], args[j+1:]   (i, j 1-based here)
Spliced(ts, a, b, a2) ==
    SubSeq(ts, 1, a - 1) \o <<a2>> \o SubSeq(ts, a + 1, b - 1)
        \o SubSeq(ts, b + 1, Len(ts))

\* lines 306-315: for j in range(i + 1, len(args)); None when the loop
\* ends without returning   (a, b are i + 1, j + 1)
RECURSIVE PlusInner(_, _, _)
PlusInner(ts, a, b) ==
    IF b > Len(ts) THEN None
    ELSE IF head(ts[b]) # "matrix" THEN PlusInner(ts, a, b + 1)
    ELSE IF nrows(ts[a]) # nrows(ts[b])
    THEN ValueError("The added matrices have different numbers of rows.")
    ELSE IF ncols(ts[a]) # ncols(ts[b])
    THEN ValueError("The added matrices have different numbers of columns.")
    ELSE Plus(Spliced(ts, a, b, ElementwiseSum(ts[a], ts[b])))

\* lines 303-316: for i in range(len(args) - 1)
RECURSIVE PlusOuter(_, _)
PlusOuter(ts, a) ==
    IF a > Len(ts) - 1 THEN Inapplicable
    ELSE IF head(ts[a]) # "matrix" THEN PlusOuter(ts, a + 1)
    ELSE LET r == PlusInner(ts, a, a + 1)
         IN  IF r = None THEN PlusOuter(ts, a + 1) ELSE r

rule_matrix_addition(ts) == PlusOuter(ts, 1)

PlusInit ==
    /\ call = "Plus" /\ result = None /\ pc = "call" /\ e = None
    /\ args \in SeqsUpTo(PlusOperands, MaxTerms)
    /\ RRIdle /\ PowIdle

PlusRule ==
    /\ call = "Plus" /\ pc = "call"
    /\ result' = rule_matrix_addition(args)
    /\ pc' = "done"
    /\ UNCHANGED <<call, args, e, rrLocals, powLocals>>

PlusNext == PlusRule

SpecPlus == PlusInit /\ [][PlusNext]_vars

(***************************************************************************)
(* SpecRR: row_reduce (lines 381-476).  Entries are exact rationals.  i,   *)
(* j and last_nz are 0-based as in the code; rows and columns of mat are   *)
(* 1-based, so the code's mat[i][j] is mat[i + 1][j + 1].                  *)
(***************************************************************************)
RRMaxEntry == 2

RRShapes == (1..3) \X (1..3)

\* 3-by-3 matrices have entries in {0, 1}, smaller ones in 0..RRMaxEntry
RREntries(sh) == IF sh = <<3, 3>> THEN {0, 1} ELSE 0..RRMaxEntry

RROperands ==
    UNION {{Expr("matrix", QMatrix(rs)) : rs \in [1..sh[1] -> [1..sh[2] -> RREntries(sh)]]} :
              sh \in RRShapes} \cup {Symbol}

List(xs) == [head |-> "list", items |-> xs]

ToColNone == [t |-> "none", v |-> 0]

\* the arguments (rref, to_col, steps_out) of the calls: to_col is None, an
\* int or a value that is neither; steps_out is None or a list that may
\* hold earlier entries
RRArguments ==
    {<<TRUE, ToColNone, List(<<>>)>>,
     <<TRUE, ToColNone, None>>,
     <<FALSE, ToColNone, List(<<[op |-> "earlier"]>>)>>,
     <<TRUE, [t |-> "int", v |-> 1], List(<<[op |-> "earlier"]>>)>>,
     <<FALSE, [t |-> "int", v |-> 2], List(<<>>)>>,
     <<TRUE, [t |-> "int", v |-> 0], List(<<>>)>>,
     <<FALSE, [t |-> "other", v |-> 0], None>>}

\* steps_out.append(entry) under "if steps_out != None"
Log(sink, entry) ==
    IF sink = None THEN sink ELSE List(Append(sink.items, entry))

\* the working copy and the sink, as the nested functions see them
Work(m, s) == [mat |-> m, steps |-> s]

\* seeded fault: a swap that is not recorded
swap_unrecorded(w, a, b) ==
    Work([w.mat EXCEPT ![a + 1] = w.mat[b + 1], ![b + 1] = w.mat[a + 1]], w.steps)

\* lines 417-421: R_a <-> R_b   (a, b 0-based)
swap(w, a, b) ==
    Work([w.mat EXCEPT ![a + 1] = w.mat[b + 1], ![b + 1] = w.mat[a + 1]],
         Log(w.steps, [op |-> "swap", a |-> a + 1, b |-> b + 1]))

\* lines 422-428: c * R_a -> R_a
scale(w, a, c) ==
    Work([w.mat EXCEPT ![a + 1] = [k \in 1..Len(w.mat[a + 1]) |-> QMul(w.mat[a + 1][k], c)]],
         Log(w.steps, [op |-> "scale", a |-> a + 1, c |-> c]))

\* lines 429-436: R_a + c * R_b -> R_a
replace(w, a, b, c) ==
    Work([w.mat EXCEPT ![a + 1] = [k \in 1..Len(w.mat[a + 1]) |->
                                     QAdd(w.mat[a + 1][k], QMul(c, w.mat[b + 1][k]))]],
         Log(w.steps, [op |-> "replace", a |-> a + 1, b |-> b + 1, c |-> c]))

\* lines 437-439
is_zero(m, a) == \A k \in 1..Len(m[a + 1]) : m[a + 1][k] = QZero

\* lines 443-445
RECURSIVE LastNonzero(_, _)
LastNonzero(m, l) == IF l >= 0 /\ is_zero(m, l) THEN LastNonzero(m, l - 1) ELSE l

\* lines 453-456: swap in the first row below i with a nonzero entry in
\* column j
RECURSIVE PivotSearch(_, _, _, _, _)
PivotSearch(w, a, c, k, last) ==
    IF k > last THEN w
    ELSE IF w.mat[k + 1][c + 1] # QZero THEN swap(w, a, k)
    ELSE PivotSearch(w, a, c, k + 1, last)

\* seeded fault: the test of line 460 dropped, every pivot row is scaled
NeedsScaling_always(x) == TRUE

\* line 460
NeedsScaling(x) == x # QOne

\* lines 462-464: clear column c in rows k..last with row a
RECURSIVE EliminateBelow(_, _, _, _, _)
EliminateBelow(w, a, c, k, last) ==
    IF k > last THEN w
    ELSE EliminateBelow(
             IF w.mat[k + 1][c + 1] # QZero
             THEN replace(w, k, a, QNeg(w.mat[k + 1][c + 1])) ELSE w,
             a, c, k + 1, last)

\* seeded fault: "range(i - 1, i - 2, -1)" clears the row next above only
RECURSIVE EliminateAbove_one_row(_, _, _, _)
EliminateAbove_one_row(w, a, c, k) ==
    IF k < 0 \/ k < a - 1 THEN w
    ELSE EliminateAbove_one_row(
             IF w.mat[k + 1][c + 1] # QZero
             THEN replace(w, k, a, QNeg(w.mat[k + 1][c + 1])) ELSE w,
             a, c, k - 1)

\* lines 472-474: clear column c in rows k, k - 1, ..., 0 with row a
RECURSIVE EliminateAbove(_, _, _, _)
EliminateAbove(w, a, c, k) ==
    IF k < 0 THEN w
    ELSE EliminateAbove(
             IF w.mat[k + 1][c + 1] # QZero
             THEN replace(w, k, a, QNeg(w.mat[k + 1][c + 1])) ELSE w,
             a, c, k - 1)

\* lines 469-470: the first column below to_col where row a is nonzero,
\* or to_col when there is none
RECURSIVE FirstNonzero(_, _, _, _)
FirstNonzero(m, a, c, lim) ==
    IF c >= lim THEN lim
    ELSE IF m[a + 1][c + 1] # QZero THEN c
    ELSE FirstNonzero(m, a, c + 1, lim)

RRCalls == {"row_reduce", "row_reduce again"}

RRInit ==
    /\ call = "row_reduce" /\ result = None /\ pc = "call"
    /\ e \in RROperands
    /\ args \in RRArguments
    /\ RRIdle /\ PowIdle

\* lines 400-445
RREnter ==
    /\ call \in RRCalls /\ pc = "call"
    /\ IF head(e) # "matrix"
       THEN /\ result' = ValueError("expecting matrix") /\ pc' = "done"
            /\ UNCHANGED rrLocals
       ELSE IF args[2].t = "other"
       THEN /\ result' = ValueError("to_col should be an int or None") /\ pc' = "done"
            /\ UNCHANGED rrLocals
       ELSE /\ mat' = [r \in 1..Len(e.args) |-> [c \in 1..Len(e.args[r]) |-> e.args[r][c]]]
            /\ rref' = args[1]
            /\ to_col' = IF args[2].t = "none" THEN Len(e.args[1])
                         ELSE Min(Len(e.args[1]), args[2].v)
            /\ steps_out' = args[3]
            /\ i' = 0 /\ j' = 0
            /\ last_nz' = LastNonzero(mat', Len(mat') - 1)
            /\ pc' = "loop"
            /\ UNCHANGED result
    /\ UNCHANGED <<call, args, e, powLocals>>

\* the exit of the forward loop: line 446 false, or the break of line 449
ForwardExit ==
    IF rref THEN /\ pc' = "back" /\ i' = last_nz
            ELSE /\ pc' = "return" /\ UNCHANGED i

\* lines 446-459: one pass over the loop head, the zero-row test and the
\* pivot search
RRPivot ==
    /\ call \in RRCalls /\ pc = "loop"
    /\ IF ~(i < Len(mat) /\ j < to_col)
       THEN ForwardExit /\ UNCHANGED <<mat, j, last_nz, steps_out>>
       ELSE IF is_zero(mat, i) /\ i >= last_nz
       THEN ForwardExit /\ UNCHANGED <<mat, j, last_nz, steps_out>>
       ELSE LET w0 == Work(mat, steps_out)
                w1 == IF is_zero(mat, i) THEN swap(w0, i, last_nz) ELSE w0
                l1 == IF is_zero(mat, i) THEN last_nz - 1 ELSE last_nz
                w2 == IF w1.mat[i + 1][j + 1] = QZero
                      THEN PivotSearch(w1, i, j, i + 1, l1) ELSE w1
            IN  /\ mat' = w2.mat /\ steps_out' = w2.steps /\ last_nz' = l1
                /\ IF w2.mat[i + 1][j + 1] = QZero
                   THEN j' = j + 1 /\ pc' = "loop"
                   ELSE j' = j /\ pc' = "eliminate"
                /\ UNCHANGED i
    /\ UNCHANGED <<frame, rref, to_col, powLocals>>

\* lines 460-466: scale the pivot row, clear the column below it
RREliminate ==
    /\ call \in RRCalls /\ pc = "eliminate"
    /\ LET w0 == Work(mat, steps_out)
           w1 == IF NeedsScaling(mat[i + 1][j + 1])
                 THEN scale(w0, i, QInv(mat[i + 1][j + 1])) ELSE w0
           w2 == EliminateBelow(w1, i, j, i + 1, last_nz)
       IN  mat' = w2.mat /\ steps_out' = w2.steps
    /\ i' = i + 1 /\ j' = j + 1
    /\ pc' = "loop"
    /\ UNCHANGED <<frame, rref, to_col, last_nz, powLocals>>

\* lines 468-475: one row of the backward pass
RRBackRow ==
    /\ call \in RRCalls /\ pc = "back"
    /\ IF i < 0
       THEN pc' = "return" /\ UNCHANGED <<mat, steps_out, i, j>>
       ELSE LET c == FirstNonzero(mat, i, 0, to_col)
                w == IF c < to_col
                     THEN EliminateAbove(Work(mat, steps_out), i, c, i - 1)
                     ELSE Work(mat, steps_out)
            IN  /\ mat' = w.mat /\ steps_out' = w.steps
                /\ j' = IF c < to_col THEN c ELSE IF to_col > 0 THEN to_col - 1 ELSE j
                /\ i' = i - 1
                /\ pc' = "back"
    /\ UNCHANGED <<frame, rref, to_col, last_nz, powLocals>>

\* line 476
RRReturn ==
    /\ call \in RRCalls /\ pc = "return"
    /\ result' = matrix(mat)
    /\ pc' = "done"
    /\ UNCHANGED <<call, args, e, rrLocals, powLocals>>

\* row_reduce(row_reduce(A, rref=True), rref=True): the matrix the first
\* call returned is reduced again, with a fresh sink
RRAgain ==
    /\ call = "row_reduce" /\ pc = "done" /\ IsMatrix(result)
    /\ args = <<TRUE, ToColNone, List(<<>>)>>
    /\ call' = "row_reduce again"
    /\ e' = result
    /\ result' = None
    /\ pc' = "call"
    /\ UNCHANGED <<args, rrLocals, powLocals>>

RRNext == RREnter \/ RRPivot \/ RREliminate \/ RRBackRow \/ RRReturn \/ RRAgain

SpecRR == RRInit /\ [][RRNext]_vars

(***************************************************************************)
(* Properties.                                                             *)
(***************************************************************************)
WellFormed(x) ==
    /\ nrows(x) >= 1
    /\ ncols(x) >= 1
    /\ \A r \in 1..nrows(x) : Len(x.args[r]) = ncols(x)

\* the n-fold product of X with itself
RECURSIVE MatPow(_, _)
MatPow(X, k) ==
    IF k = 0 THEN identity_matrix(nrows(X)) ELSE reduce_matmul(MatPow(X, k - 1), X)

\* the product of two matrices of exact rationals, given by their rows
QMatMul(X, Y) ==
    [r \in 1..Len(X) |-> [c \in 1..Len(Y[1]) |->
        QSumSeq([k \in 1..Len(Y) |-> QMul(X[r][k], Y[k][c])])]]

\* C1: for every square matrix A (1-by-1 and singular included) adj(A)
\* returns a matrix and A @ adj(A) equals det(A) * identity_matrix(n).
C1_AdjugateIdentity ==
    call = "adj" =>
        /\ IsMatrix(result)
        /\ reduce_matmul(e, result)
             = rule_scalar_multiplication(<<det(e), identity_matrix(nrows(e))>>)

\* the list the call matrix_with_rows(*rows(e)) was given
RowsOfE == IsMatrix(e) /\ head(rows(e)) = "list" /\ args = rows(e).items

\* C2 as stated: matrix_with_rows(*rows(A)) equals A for every matrix A.
C2_RowsRoundTrip == (call = "matrix_with_rows" /\ RowsOfE) => result = e

\* C2 amended: matrix_with_rows(*rows(A)) is the (m*k)-by-1 column matrix
\* of A's entries in row-major order; it equals A exactly when k = 1.
C2_RowsStackColumns ==
    (call = "matrix_with_rows" /\ RowsOfE) =>
        LET m == nrows(e)
            k == ncols(e)
        IN  /\ result = Expr("matrix", [q \in 1..(m * k) |->
                            <<e.args[((q - 1) \div k) + 1][((q - 1) % k) + 1]>>])
            /\ (result = e) <=> (k = 1)

C2_Witness ==
    call = "matrix_with_rows" /\ RowsOfE /\ nrows(e) >= 2 /\ ncols(e) >= 2

\* C3: every matrix a constructor or reshaping operation returns has at
\* least one row, at least one column and rows of equal length.
C3_ReturnedMatricesWellFormed == IsMatrix(result) => WellFormed(result)

\* the call Pow(A, k) on a square matrix A with an int exponent
PowApplies ==
    /\ call = "Pow" /\ IsMatrix(e) /\ args[2].t = "int" /\ nrows(e) = ncols(e)

\* C7: for square A with det(A^k) # 0 and k >= 1, Pow(A, -k) returns a
\* matrix R with A^k @ R = identity_matrix(n).
C7_NegativePowerIsInverse ==
    (/\ PowApplies /\ pc = "done" /\ args[2].v < 0
     /\ det(MatPow(e, -args[2].v)).val # 0) =>
        /\ IsMatrix(result)
        /\ QMatMul(QMatrix(MatPow(e, -args[2].v).args), result.args)
             = QMatrix(identity_matrix(nrows(e)).args)

\* the state of the "Pow" rule at the start of an iteration and at its return
PowLoopInvariant ==
    /\ (PowApplies /\ pc = "loop") =>
           /\ P = MatPow(e, npos % i)
           /\ B = MatPow(e, i)
           /\ BitAnd(i, i - 1) = 0 /\ i >= 1
    /\ (PowApplies /\ pc = "done" /\ args[2].v >= 0) =>
           result = MatPow(e, args[2].v)

\* what is left of the loop: it is a natural number as long as the loop runs
PowVariant == 2 * npos + 1 - i

\* C8: at the start of every iteration with mask i, P = A^(npos mod i) and
\* B = A^i; for n >= 0 the rule returns the n-fold product of A; and every
\* iteration strictly decreases a natural number, so the loop terminates.
C8_PowBySquaring ==
    /\ []PowLoopInvariant
    /\ [][(pc = "loop" /\ pc' = "loop") =>
              PowVariant' < PowVariant /\ PowVariant' >= 0]_vars

C8_Witness ==
    PowApplies /\ pc = "done" /\ args[2].v = MaxPow /\ nrows(e) = PowN
        /\ result # identity_matrix(PowN)

IsHardError(x) == head(x) \in {"ValueError", "NameError", "ZeroDivisionError"}

PartIdx == {args[k] : k \in 1..Len(args)}

\* C6 as stated: with a matrix operand, any index that is not an int makes
\* the Part rules defer.
C6_NonIntegerIndexDefers ==
    (call = "Part" /\ pc = "done" /\ IsMatrix(e)
        /\ \E x \in PartIdx : x.t # "int") => result = Inapplicable

\* C6 amended: the Part rules defer exactly when the operand is no matrix
\* or an index is an expression; with a matrix operand and no expression
\* index, an index that is not an int is a hard error, and so are an int
\* out of bounds and a single index into a matrix with several columns.
C6_ExpressionIndexDefers ==
    (call = "Part" /\ pc = "done") =>
        /\ (result = Inapplicable)
             <=> (~IsMatrix(e) \/ \E x \in PartIdx : x.t = "expr")
        /\ (IsMatrix(e) /\ \A x \in PartIdx : x.t # "expr") =>
             IF \E x \in PartIdx : x.t = "other" THEN IsHardError(result)
             ELSE IF Len(args) = 1
             THEN IF ncols(e) = 1 /\ args[1].v \in 1..nrows(e)
                  THEN result = Scalar(e.args[args[1].v][1])
                  ELSE IsHardError(result)
             ELSE IF args[1].v \in 1..nrows(e) /\ args[2].v \in 1..ncols(e)
                  THEN result = Scalar(e.args[args[1].v][args[2].v])
                  ELSE IsHardError(result)

C6_Witness ==
    call = "Part" /\ pc = "done" /\ IsMatrix(e) /\ Len(args) = 2
        /\ args[1].t = "int" /\ args[2].t = "other" /\ IsHardError(result)

\* positions of the matrix operands of a sum
MatrixPositions(ts) == {k \in 1..Len(ts) : head(ts[k]) = "matrix"}

Least(S) == CHOOSE k \in S : \A l \in S : k <= l

\* C9: with fewer than two matrix operands the Plus rule defers; when the
\* first two matrix operands differ in shape it raises; otherwise the first
\* is replaced by their element-wise sum, the second removed, and every
\* other operand kept in place.
C9_PlusCombinesFirstPair ==
    (call = "Plus" /\ pc = "done") =>
        LET ms == MatrixPositions(args)
        IN  IF Cardinality(ms) <= 1 THEN result = Inapplicable
            ELSE LET a == Least(ms)
                     b == Least(ms \ {a})
                 IN  IF nrows(args[a]) # nrows(args[b]) \/ ncols(args[a]) # ncols(args[b])
                     THEN IsHardError(result)
                     ELSE /\ head(result) = "Plus"
                          /\ Len(result.terms) = Len(args) - 1
                          /\ \A q \in 1..(Len(args) - 1) :
                               result.terms[q] =
                                 IF q = a
                                 THEN Expr("matrix", [r \in 1..nrows(args[a]) |->
                                        [c \in 1..ncols(args[a]) |->
                                           args[a].args[r][c] + args[b].args[r][c]]])
                                 ELSE IF q < b THEN args[q] ELSE args[q + 1]
                          /\ Cardinality(MatrixPositions(result.terms))
                               = Cardinality(ms) - 1

C9_Witness ==
    /\ call = "Plus" /\ pc = "done" /\ head(result) = "Plus"
    /\ Len(args) = MaxTerms /\ head(args[1]) # "matrix"
    /\ Cardinality(MatrixPositions(result.terms)) = 1

(***************************************************************************)
(* Properties of row_reduce.                                               *)
(***************************************************************************)
\* the column (1-based) of the first nonzero entry of a row, 0 for a zero row
Lead(rw) ==
    IF \A c \in 1..Len(rw) : rw[c] = QZero THEN 0
    ELSE CHOOSE c \in 1..Len(rw) : rw[c] # QZero /\ \A d \in 1..(c - 1) : rw[d] = QZero

IsRREF(m) ==
    /\ \A r \in 1..Len(m) : Lead(m[r]) = 0 =>
           \A r2 \in (r + 1)..Len(m) : Lead(m[r2]) = 0
    /\ \A r \in 1..Len(m) : Lead(m[r]) # 0 =>
           /\ m[r][Lead(m[r])] = QOne
           /\ \A r2 \in 1..Len(m) : r2 # r => m[r2][Lead(m[r])] = QZero
           /\ \A r2 \in (r + 1)..Len(m) : Lead(m[r2]) # 0 => Lead(m[r]) < Lead(m[r2])

\* a call row_reduce(A, rref=True) with no column limit has returned
ReducedCall ==
    /\ call \in RRCalls /\ pc = "done" /\ IsMatrix(e)
    /\ args[1] = TRUE /\ args[2] = ToColNone

\* C4: row_reduce(A, rref=True) with no column limit returns a matrix of
\* A's shape in reduced row echelon form.
C4_ReturnsRREF ==
    ReducedCall =>
        /\ IsMatrix(result)
        /\ nrows(result) = nrows(e) /\ ncols(result) = ncols(e)
        /\ WellFormed(result)
        /\ IsRREF(result.args)

C4_Witness ==
    /\ ReducedCall /\ call = "row_reduce" /\ result # e
    /\ nrows(e) = 3 /\ ncols(e) = 3
    /\ Lead(result.args[1]) = 1 /\ Lead(result.args[2]) = 3 /\ Lead(result.args[3]) = 0
    /\ \E r \in 1..3 : e.args[r] = <<QZero, QZero, QZero>> /\ r < 3

\* C5: reducing a reduced matrix again returns it unchanged and applies no
\* elementary row operation.
C5_ReducingAgainChangesNothing ==
    (call = "row_reduce again" /\ pc = "done") =>
        /\ result = e
        /\ steps_out = List(<<>>)

C5_Witness ==
    /\ call = "row_reduce again" /\ pc = "done"
    /\ nrows(e) = 3 /\ Lead(e.args[2]) = 3

\* one recorded operation applied to a matrix given by its rows
Apply(m, s) ==
    IF s.op = "swap" THEN [m EXCEPT ![s.a] = m[s.b], ![s.b] = m[s.a]]
    ELSE IF s.op = "scale"
    THEN [m EXCEPT ![s.a] = [k \in 1..Len(m[s.a]) |-> QMul(s.c, m[s.a][k])]]
    ELSE [m EXCEPT ![s.a] = [k \in 1..Len(m[s.a]) |->
                               QAdd(m[s.a][k], QMul(s.c, m[s.b][k]))]]

RECURSIVE Replay(_, _)
Replay(m, ss) == IF Len(ss) = 0 THEN m ELSE Replay(Apply(m, Head(ss)), Tail(ss))

\* a call of row_reduce with a trace sink is past its argument checks
TracedCall ==
    /\ call \in RRCalls /\ pc \in {"loop", "eliminate", "back", "return", "done"}
    /\ IsMatrix(e) /\ args[2].t # "other" /\ args[3] # None

\* C10: the sink keeps the entries it held, and the entries appended since
\* the call, replayed in order on the input matrix, give the working copy
\* at every step and the matrix returned at the end.
C10_TraceReplaysWorkingCopy ==
    TracedCall =>
        LET old == Len(args[3].items)
        IN  /\ head(steps_out) = "list"
            /\ Len(steps_out.items) >= old
            /\ SubSeq(steps_out.items, 1, old) = args[3].items
            /\ Replay(e.args, SubSeq(steps_out.items, old + 1, Len(steps_out.items)))
                 = mat
            /\ pc = "done" => result = Expr("matrix", mat)

C10_Witness ==
    /\ TracedCall /\ pc = "done" /\ args[3].items # <<>>
    /\ \E a, b, c \in 1..Len(steps_out.items) :
         /\ steps_out.items[a].op = "swap"
         /\ steps_out.items[b].op = "scale"
         /\ steps_out.items[c].op = "replace"

====
